---- MODULE Spec2Model ----
(***************************************************************************)
(* MyJDProxy: the MyJDClient session controller (connect / disconnect /    *)
(* is_connected / _refresh_connection), the five "..._with_retry"          *)
(* executors and the domain operations built on them, plus the /connect    *)
(* route handler.  Every call to the external myjdapi collaborator         *)
(* (jd.connect, jd.get_device, jd.reconnect, jd.disconnect and the device  *)
(* calls) is a step whose outcome is chosen nondeterministically; a device *)
(* call is two steps, the call made on the handle read from self.device    *)
(* and its answer, so that other threads can run while it is in flight.    *)
(***************************************************************************)
EXTENDS Naturals, Integers, Sequences, FiniteSets, TLC

\* ------------------------------------------------------------------ bounds
NumThreads == 2     \* request threads that exist
NumDevices == 2     \* distinct device handles jd.get_device can return
MaxLinks   == 1     \* longest download_links sequence submitted
MaxRecords == 2     \* longest raw record list a remote query returns

\* ------------------------------------------------------- values and inputs
NoDevice == 0       \* self.device = None

Threads == 1..NumThreads
Devices == 1..NumDevices

Urls == {"http://h/a", "http://h/b"}
LinkSeqs == UNION {[1..n -> Urls] : n \in 0..MaxLinks}

Categories == {"movie", "tv_show", "horror"}
allowed_categories == {"tv_show", "movie"}
base_path == "/downloads"
Names == {"pkg", ""}
\* the name field of a POST /downloads body
RouteNames == {"", " ", "Show Stagione 1"}
\* current_app.config.get('mapping_categories', {}): the key is never set
mapping_categories == [k \in {} |-> {}]
\* package_ids: absent (None), an empty list, a list of ids
PackageIdArgs == {[given |-> FALSE, ids |-> <<>>],
                  [given |-> TRUE, ids |-> <<>>],
                  [given |-> TRUE, ids |-> <<"u1">>]}

RawPackages ==
    { [name |-> "a", bytesTotal |-> 1000, bytesLoaded |-> 250,
       status |-> "downloading", uuid |-> "u1", eta |-> 60, speed |-> 10],
      [name |-> "b", bytesTotal |-> 0, bytesLoaded |-> 0,
       status |-> "Finished", uuid |-> "u2"],
      [uuid |-> "u3", status |-> "bogus"],
      [uuid |-> "u4", bytesTotal |-> 3, bytesLoaded |-> 1] }
QueryResults == UNION {[1..n -> RawPackages] : n \in 0..MaxRecords}

DomainOps == {"add_download_package", "get_download_packages",
              "get_linkgrabber_packages", "start_downloads", "pause_downloads"}

NoArgs == [name |-> "", links |-> <<>>, category |-> "", auto_start |-> FALSE,
           package_ids |-> [given |-> FALSE, ids |-> <<>>], via |-> "direct"]

\* ------------------------------------------------------------------- state
VARIABLES
    _is_connected,  \* MyJDClient._is_connected
    device,         \* MyJDClient.device: NoDevice or a handle
    running,        \* the threads that issue requests
    pc,             \* per thread: position inside the running operation
    op,             \* per thread: the operation running / last finished
    args,           \* per thread: the arguments of that operation
    retry_count,    \* per thread: retry_count of the executor frame
    caller,         \* per thread: who called connect()
    trace,          \* per thread: collaborator calls made by the operation
    pre,            \* per thread: the session when the operation was called
    result          \* per thread: what the last finished operation gave

vars == <<_is_connected, device, running, pc, op, args, retry_count, caller,
          trace, pre, result>>

\* ------------------------------------------------------------ pure helpers
Ret(v) == [kind |-> "return", val |-> v]
Raise(k) == [kind |-> k, val |-> k]
NoResult == [kind |-> "none", val |-> "none"]

Ev(name, out, dev, data) == [ev |-> name, out |-> out, dev |-> dev, data |-> data]

\* faulty variant: is_connected() forgets the device handle
is_connected_Mut(flag, dev) == flag

\* MyJDClient.is_connected
is_connected(flag, dev) == flag /\ dev # NoDevice

IsConnected == is_connected(_is_connected, device)

Session == [flag |-> _is_connected, device |-> device, connected |-> IsConnected]

\* "\n".join(download_links)
RECURSIVE join(_)
join(s) == IF Len(s) = 0 THEN ""
           ELSE IF Len(s) = 1 THEN s[1]
           ELSE s[1] \o "\n" \o join(Tail(s))

\* the package dictionary add_download_package builds
Package(a) ==
    [packageName |-> a.name,
     links |-> join(a.links),
     destinationFolder |-> base_path \o "/" \o a.category,
     autostart |-> IF a.auto_start THEN "true" ELSE "false"]

\* dict.get(key, default)
Get(pkg, key, default) == IF key \in DOMAIN pkg THEN pkg[key] ELSE default

\* str.lower on the status strings the remote service sends
lower(s) == CASE s = "Finished" -> "finished"
              [] s = "DOWNLOADING" -> "downloading"
              [] OTHER -> s

StatusValues == {"downloading", "finished", "failed", "paused", "pending",
                 "extracting"}

\* faulty variant: the status string is looked up without lower()
from_string_Mut(status_str) ==
    IF status_str \in StatusValues THEN status_str ELSE "unknown"

\* DownloadStatus.from_string
from_string(status_str) ==
    IF lower(status_str) \in StatusValues THEN lower(status_str) ELSE "unknown"

\* the DownloadPackage get_download_packages builds from one raw record
DownloadPackage(pkg) ==
    [name |-> Get(pkg, "name", "Unknown"),
     bytes_total |-> Get(pkg, "bytesTotal", 0),
     bytes_loaded |-> Get(pkg, "bytesLoaded", 0),
     status |-> from_string(Get(pkg, "status", "unknown")),
     package_id |-> Get(pkg, "uuid", ""),
     eta |-> Get(pkg, "eta", -1),
     speed |-> Get(pkg, "speed", 0)]

\* faulty variant: the percentage is computed without the zero check
progress_percentage_Mut(p) == [num |-> p.bytes_loaded * 100, den |-> p.bytes_total]

\* DownloadPackage.progress_percentage: the float (bytes_loaded /
\* bytes_total) * 100, kept as the exact quotient num / den
progress_percentage(p) ==
    IF p.bytes_total = 0 THEN [num |-> 0, den |-> 1]
    ELSE [num |-> p.bytes_loaded * 100, den |-> p.bytes_total]

\* DownloadPackage.is_completed
is_completed(p) == p.status = "finished"

\* DownloadPackage.is_downloading
is_downloading(p) == p.status = "downloading"

\* DownloadPackage.to_dict (without the formatted_* strings)
to_dict(p) ==
    [name |-> p.name,
     package_id |-> p.package_id,
     status |-> p.status,
     progress_percentage |-> progress_percentage(p),
     bytes_total |-> p.bytes_total,
     bytes_loaded |-> p.bytes_loaded,
     speed |-> p.speed,
     eta |-> p.eta,
     is_completed |-> is_completed(p),
     is_downloading |-> is_downloading(p)]

\* str.strip on the names a request can carry
strip(s) == IF s = " " THEN "" ELSE s

\* api_routes.clean_name: "Stagione <n>" becomes "S<nn>"
clean_name(name) == IF name = "Show Stagione 1" THEN "Show S01" ELSE name

\* api_routes.extract_correct_category: the first key whose mapped
\* categories hold category.lower(), else the category itself
extract_correct_category(category) ==
    LET hits == {k \in DOMAIN mapping_categories :
                    lower(category) \in mapping_categories[k]}
    IN IF hits = {} THEN category ELSE CHOOSE k \in hits : TRUE

\* faulty variant: validate() does not check the name
validate_Mut(req, allowed) ==
    IF Len(req.links) = 0 THEN FALSE
    ELSE IF req.category \notin allowed THEN FALSE
    ELSE TRUE

\* DownloadRequest.validate
validate(req, allowed) ==
    IF strip(req.name) = "" THEN FALSE
    ELSE IF Len(req.links) = 0 THEN FALSE
    ELSE IF req.category \notin allowed THEN FALSE
    ELSE TRUE

\* the (body, status) pairs of the /downloads POST handler
Response(status, success, message) ==
    Ret([status |-> status, success |-> success, message |-> message])

\* add_download: what the handler answers once add_download_package
\* returned res or raised
respond(res) ==
    CASE res.kind = "return" ->
            Response(201, res.val, "Successfully added download package")
      [] res.kind = "MyJDConnectionError" -> Response(503, FALSE, "connection_error")
      [] res.kind = "MyJDOperationError" -> Response(400, FALSE, "operation_error")
      [] OTHER -> Response(500, FALSE, "internal_error")

\* get_downloads: what the handler answers once get_download_packages
\* returned res or raised
respond_get_downloads(res) ==
    CASE res.kind = "return" ->
            Ret([status |-> 200, success |-> TRUE, count |-> Len(res.val),
                 packages |-> [i \in 1..Len(res.val) |-> to_dict(res.val[i])]])
      [] res.kind = "MyJDConnectionError" -> Response(503, FALSE, "connection_error")
      [] res.kind = "MyJDOperationError" -> Response(400, FALSE, "operation_error")
      [] OTHER -> Response(500, FALSE, "internal_error")

\* the device call each domain operation wraps
RemoteOf(o) ==
    CASE o = "add_download_package" -> "linkgrabber.add_links"
      [] o = "get_download_packages" -> "downloads.query_packages"
      [] o = "get_linkgrabber_packages" -> "linkgrabber.query_packages"
      [] o = "start_downloads" -> "downloadcontroller.start_downloads"
      [] o = "pause_downloads" -> "downloadcontroller.pause_downloads"

\* what the remote call of operation o can answer when it does not raise
RemoteValues(o) ==
    IF o \in {"get_download_packages", "get_linkgrabber_packages"}
    THEN QueryResults ELSE {<<>>}

\* what the remote call of operation o is given
RemoteArg(o, a) == IF o = "add_download_package" THEN Package(a) ELSE <<>>

\* faulty variant: the executors catch every exception, as "except Exception"
IsTokenInvalid_Mut(out) == out # "ok"

\* "except MYJDTokenInvalidException" of the executors
IsTokenInvalid(out) == out = "token_invalid"

\* faulty variant: the retry branch is taken again on the second attempt
CanRetry_Mut(rc) == rc <= 1

\* "if retry_count == 0" of the executors
CanRetry(rc) == rc = 0

\* faulty variant: the executor retries whatever _refresh_connection returned
AfterRefresh_Mut(refreshed) == "remote_call"

\* "if self._refresh_connection(): retry  else: raise MyJDOperationError"
AfterRefresh(refreshed) == IF refreshed THEN "remote_call" ELSE "raise"

\* faulty variant: the operation lets the exception through unwrapped
OpExcept_Mut(exc) == exc

\* "except Exception as e: raise MyJDOperationError(...)" of the operations
OpExcept(exc) == "MyJDOperationError"

\* faulty variant: add_download_package forgets result["success"] = True and the
\* linkgrabber query drops the executor's return value
OpReturn_Mut(o, val) ==
    CASE o = "add_download_package" ->
            [success |-> FALSE, message |-> "Package added successfully"]
      [] o = "get_download_packages" -> <<>>
      [] o = "get_linkgrabber_packages" -> <<>>
      [] o \in {"start_downloads", "pause_downloads"} -> FALSE

\* what a domain operation returns once its remote call answered val
OpReturn(o, val) ==
    CASE o = "add_download_package" ->
            [success |-> TRUE, message |-> "Package added successfully"]
      [] o = "get_download_packages" ->
            [i \in 1..Len(val) |-> DownloadPackage(val[i])]
      [] o = "get_linkgrabber_packages" -> val
      [] o \in {"start_downloads", "pause_downloads"} -> TRUE

\* faulty variant: connect() does not check the looked-up device
connect_device_NoCheck(flag, cur, out, dev) ==
    CASE out = "ok"    -> [flag |-> TRUE, device |-> dev, ok |-> TRUE]
      [] out = "none"  -> [flag |-> TRUE, device |-> NoDevice, ok |-> TRUE]
      [] out = "raise" -> [flag |-> flag, device |-> cur, ok |-> FALSE]

\* faulty variant: _is_connected is set before the device is looked up
connect_device_Mut(flag, cur, out, dev) ==
    CASE out = "ok"    -> [flag |-> TRUE, device |-> dev, ok |-> TRUE]
      [] out = "none"  -> [flag |-> TRUE, device |-> NoDevice, ok |-> FALSE]
      [] out = "raise" -> [flag |-> TRUE, device |-> cur, ok |-> FALSE]

\* connect(): the session and outcome once jd.get_device answered
\* (out = "ok" with handle dev, out = "none" for a falsy result, "raise")
connect_device(flag, cur, out, dev) ==
    CASE out = "ok"    -> [flag |-> TRUE, device |-> dev, ok |-> TRUE]
      [] out = "none"  -> [flag |-> flag, device |-> NoDevice, ok |-> FALSE]
      [] out = "raise" -> [flag |-> flag, device |-> cur, ok |-> FALSE]

\* disconnect(): the flag once jd.disconnect answered
disconnect_flag(flag, out) == IF out = "ok" THEN FALSE ELSE flag

\* faulty variant: the result dictionary starts out with success True
Soft_Mut(msg) == Ret([success |-> TRUE, message |-> msg])

\* the soft results of add_download_package
Soft(msg) == Ret([success |-> FALSE, message |-> msg])

\* faulty variant: "if package_ids is not None", so an empty list counts
truthy_Mut(package_ids) == package_ids.given

\* "if package_ids:" of the start / pause executors
truthy(package_ids) == package_ids.given /\ Len(package_ids.ids) > 0

\* faulty variant: the category check of the elif chain is missing
validate_add_Mut(connected, a) ==
    IF ~connected THEN "Not connected to MyJDownloader"
    ELSE IF Len(a.links) = 0 THEN "No download links provided"
    ELSE "submit"

\* the elif chain of add_download_package: the soft failure message, or
\* "submit" when the package goes to the executor
validate_add(connected, a) ==
    IF ~connected THEN "Not connected to MyJDownloader"
    ELSE IF Len(a.links) = 0 THEN "No download links provided"
    ELSE IF a.category \notin allowed_categories THEN "Invalid category"
    ELSE "submit"

\* faulty variant: the recursive call passes retry_count on unchanged
after_refresh_SameCount(refreshed, rc) ==
    IF AfterRefresh(refreshed) = "remote_call"
    THEN [pc |-> "remote_call", rc |-> rc, result |-> NoResult]
    ELSE [pc |-> "idle", rc |-> rc,
          result |-> Raise(OpExcept("MyJDOperationError"))]

\* faulty variant: a failed refresh is reported as a soft failure result
after_refresh_Mut(refreshed, rc) ==
    IF AfterRefresh(refreshed) = "remote_call"
    THEN [pc |-> "remote_call", rc |-> 1, result |-> NoResult]
    ELSE [pc |-> "idle", rc |-> rc,
          result |-> Soft("Failed to refresh connection after token expiration")]

\* the executor once _refresh_connection() returned: retry with
\* retry_count = 1, or raise MyJDOperationError (wrapped by the operation)
after_refresh(refreshed, rc) ==
    IF AfterRefresh(refreshed) = "remote_call"
    THEN [pc |-> "remote_call", rc |-> 1, result |-> NoResult]
    ELSE [pc |-> "idle", rc |-> rc,
          result |-> Raise(OpExcept("MyJDOperationError"))]

\* faulty variant: add_download_package lets the MyJDConnectionError of its
\* lazy connect() escape
after_connect_Mut(c, ok, rc) ==
    CASE c = "connect" ->
            [pc |-> "idle", rc |-> rc,
             result |-> IF ok THEN Ret(TRUE) ELSE Raise("MyJDConnectionError")]
      [] c = "route_connect" ->
            [pc |-> "idle", rc |-> rc,
             result |-> IF ok
                        THEN Ret([status |-> 200, success |-> TRUE,
                                  message |-> "Successfully connected to MyJDownloader"])
                        ELSE Ret([status |-> 400, success |-> FALSE,
                                  message |-> "connection_error"])]
      [] c = "add_download_package" ->
            IF ok THEN [pc |-> "add_validate", rc |-> rc, result |-> NoResult]
            ELSE [pc |-> "idle", rc |-> rc, result |-> Raise("MyJDConnectionError")]
      [] c = "_refresh_connection" -> after_refresh(ok, rc)

\* where connect() returns to, and what its caller does with the outcome:
\* next pc, result and retry_count of the thread
after_connect(c, ok, rc) ==
    CASE c = "connect" ->
            [pc |-> "idle", rc |-> rc,
             result |-> IF ok THEN Ret(TRUE) ELSE Raise("MyJDConnectionError")]
      [] c = "route_connect" ->
            [pc |-> "idle", rc |-> rc,
             result |-> IF ok
                        THEN Ret([status |-> 200, success |-> TRUE,
                                  message |-> "Successfully connected to MyJDownloader"])
                        ELSE Ret([status |-> 400, success |-> FALSE,
                                  message |-> "connection_error"])]
      [] c = "add_download_package" ->
            IF ok THEN [pc |-> "add_validate", rc |-> rc, result |-> NoResult]
            ELSE [pc |-> "idle", rc |-> rc, result |-> Soft("Connection error")]
      [] c = "_refresh_connection" -> after_refresh(ok, rc)

\* ------------------------------------------------------------------- init
Init ==
    /\ _is_connected = FALSE
    /\ device = NoDevice
    /\ running = {1}
    /\ pc = [t \in Threads |-> "idle"]
    /\ op = [t \in Threads |-> "none"]
    /\ args = [t \in Threads |-> NoArgs]
    /\ retry_count = [t \in Threads |-> 0]
    /\ caller = [t \in Threads |-> "none"]
    /\ trace = [t \in Threads |-> <<>>]
    /\ pre = [t \in Threads |-> [flag |-> FALSE, device |-> NoDevice, connected |-> FALSE]]
    /\ result = [t \in Threads |-> NoResult]

\* the client call made by a /downloads handler (POST: add_download_package,
\* GET: get_download_packages) has returned or raised to the handler, which
\* has not answered yet
AwaitingResponse(t) ==
    /\ pc[t] = "idle"
    /\ op[t] \in {"add_download_package", "get_download_packages"}
    /\ args[t].via = "route"

\* faulty variant: retry_count lives on past the invocation that set it
Enter_Mut(t, o, a) ==
    /\ t \in running
    /\ pc[t] = "idle"
    /\ ~AwaitingResponse(t)
    /\ op' = [op EXCEPT ![t] = o]
    /\ args' = [args EXCEPT ![t] = a]
    /\ pre' = [pre EXCEPT ![t] = Session]
    /\ UNCHANGED <<retry_count, running>>

\* a thread enters operation o with arguments a
Enter(t, o, a) ==
    /\ t \in running
    /\ pc[t] = "idle"
    /\ ~AwaitingResponse(t)
    /\ op' = [op EXCEPT ![t] = o]
    /\ args' = [args EXCEPT ![t] = a]
    /\ pre' = [pre EXCEPT ![t] = Session]
    /\ retry_count' = [retry_count EXCEPT ![t] = 0]
    /\ UNCHANGED running

\* ---------------------------------------------------------------- actions
\* MyJDClient.connect called directly (or by __enter__)
call_connect(t) ==
    /\ Enter(t, "connect", NoArgs)
    /\ pc' = [pc EXCEPT ![t] = "connect_auth"]
    /\ caller' = [caller EXCEPT ![t] = "connect"]
    /\ trace' = [trace EXCEPT ![t] = <<>>]
    /\ result' = [result EXCEPT ![t] = NoResult]
    /\ UNCHANGED <<_is_connected, device>>

\* connect(): self.jd.connect(email, password)
jd_connect(t) ==
    /\ pc[t] = "connect_auth"
    /\ \E out \in {"ok", "raise"} :
         LET e == Ev("jd.connect", out, NoDevice, <<>>)
             nx == after_connect(caller[t], FALSE, retry_count[t])
             fin == IF caller[t] = "_refresh_connection"
                    THEN <<e, Ev("_refresh_connection", "False", NoDevice, <<>>)>>
                    ELSE <<e>>
         IN IF out = "ok"
            THEN /\ pc' = [pc EXCEPT ![t] = "connect_get_device"]
                 /\ trace' = [trace EXCEPT ![t] = Append(@, e)]
                 /\ UNCHANGED <<result, retry_count>>
            ELSE /\ pc' = [pc EXCEPT ![t] = nx.pc]
                 /\ result' = [result EXCEPT ![t] = nx.result]
                 /\ retry_count' = [retry_count EXCEPT ![t] = nx.rc]
                 /\ trace' = [trace EXCEPT ![t] = @ \o fin]
    /\ UNCHANGED <<_is_connected, device, running, op, args, caller, pre>>

\* connect(): self.device = self.jd.get_device(deviceid) and what follows
jd_get_device(t) ==
    /\ pc[t] = "connect_get_device"
    /\ \E out \in {"ok", "none", "raise"} :
       \E dev \in IF out = "ok" THEN Devices ELSE {NoDevice} :
         LET s == connect_device(_is_connected, device, out, dev)
             nx == after_connect(caller[t], s.ok, retry_count[t])
             e == Ev("jd.get_device", out, dev, <<>>)
             fin == IF caller[t] = "_refresh_connection"
                    THEN <<e, Ev("_refresh_connection",
                                 IF s.ok THEN "True" ELSE "False", NoDevice, <<>>)>>
                    ELSE <<e>>
         IN /\ _is_connected' = s.flag
            /\ device' = s.device
            /\ pc' = [pc EXCEPT ![t] = nx.pc]
            /\ result' = [result EXCEPT ![t] = nx.result]
            /\ retry_count' = [retry_count EXCEPT ![t] = nx.rc]
            /\ trace' = [trace EXCEPT ![t] = @ \o fin]
    /\ UNCHANGED <<running, op, args, caller, pre>>

\* MyJDClient.disconnect: "if self.jd:" holds for the Myjdapi object
call_disconnect(t) ==
    /\ Enter(t, "disconnect", NoArgs)
    /\ pc' = [pc EXCEPT ![t] = "disconnect_call"]
    /\ trace' = [trace EXCEPT ![t] = <<>>]
    /\ result' = [result EXCEPT ![t] = NoResult]
    /\ UNCHANGED <<_is_connected, device, caller>>

\* disconnect(): self.jd.disconnect(), then the flag, or the except branch
jd_disconnect(t) ==
    /\ pc[t] = "disconnect_call"
    /\ \E out \in {"ok", "raise"} :
         /\ _is_connected' = disconnect_flag(_is_connected, out)
         /\ trace' = [trace EXCEPT ![t] = Append(@, Ev("jd.disconnect", out, NoDevice, <<>>))]
    /\ pc' = [pc EXCEPT ![t] = "idle"]
    /\ result' = [result EXCEPT ![t] = Ret("None")]
    /\ UNCHANGED <<device, running, op, args, retry_count, caller, pre>>

\* api_routes.connect: the /connect handler
route_connect(t) ==
    /\ Enter(t, "route_connect", NoArgs)
    /\ trace' = [trace EXCEPT ![t] = <<>>]
    /\ IF IsConnected
       THEN /\ pc' = [pc EXCEPT ![t] = "idle"]
            /\ result' = [result EXCEPT ![t] =
                  Ret([status |-> 200, success |-> TRUE,
                       message |-> "Already connected to MyJDownloader"])]
            /\ UNCHANGED caller
       ELSE /\ pc' = [pc EXCEPT ![t] = "connect_auth"]
            /\ caller' = [caller EXCEPT ![t] = "route_connect"]
            /\ result' = [result EXCEPT ![t] = NoResult]
    /\ UNCHANGED <<_is_connected, device>>

\* faulty variant: the arguments are validated before the lazy connect, so
\* a bad request is turned down without connecting
begin_add_Mut(t, a) ==
    /\ Enter(t, "add_download_package", a)
    /\ trace' = [trace EXCEPT ![t] = <<>>]
    /\ result' = [result EXCEPT ![t] = NoResult]
    /\ IF ~IsConnected /\ Len(a.links) > 0 /\ a.category \in allowed_categories
       THEN /\ pc' = [pc EXCEPT ![t] = "connect_auth"]
            /\ caller' = [caller EXCEPT ![t] = "add_download_package"]
       ELSE /\ pc' = [pc EXCEPT ![t] = "add_validate"]
            /\ UNCHANGED caller
    /\ UNCHANGED <<_is_connected, device>>

\* add_download_package with arguments a: the lazy connect of lines 108-114
begin_add(t, a) ==
    /\ Enter(t, "add_download_package", a)
    /\ trace' = [trace EXCEPT ![t] = <<>>]
    /\ result' = [result EXCEPT ![t] = NoResult]
    /\ IF ~IsConnected
       THEN /\ pc' = [pc EXCEPT ![t] = "connect_auth"]
            /\ caller' = [caller EXCEPT ![t] = "add_download_package"]
       ELSE /\ pc' = [pc EXCEPT ![t] = "add_validate"]
            /\ UNCHANGED caller
    /\ UNCHANGED <<_is_connected, device>>

\* MyJDClient.add_download_package called directly
call_add_download_package(t) ==
    \E n \in Names, l \in LinkSeqs, c \in Categories, s \in BOOLEAN :
        begin_add(t, [NoArgs EXCEPT !.name = n, !.links = l, !.category = c,
                                    !.auto_start = s])

\* api_routes.add_download up to the call of add_download_package: no JSON
\* body or a request that fails validate() is answered 400 at once
route_add_download(t) ==
    \E json \in BOOLEAN, n \in RouteNames, l \in LinkSeqs, c \in Categories,
       s \in BOOLEAN :
        LET req == [NoArgs EXCEPT !.name = clean_name(n), !.links = l,
                                  !.category = extract_correct_category(c),
                                  !.auto_start = s, !.via = "route"]
        IN IF ~json \/ ~validate(req, allowed_categories)
           THEN /\ Enter(t, "route_add_download", req)
                /\ trace' = [trace EXCEPT ![t] = <<>>]
                /\ result' = [result EXCEPT ![t] =
                      Response(400, FALSE, "validation_error")]
                /\ UNCHANGED <<_is_connected, device, pc, caller>>
           ELSE begin_add(t, req)

\* api_routes.add_download after add_download_package: the 201 answer, or
\* the except branch of what was raised
add_download_respond(t) ==
    /\ AwaitingResponse(t)
    /\ op[t] = "add_download_package"
    /\ op' = [op EXCEPT ![t] = "route_add_download"]
    /\ result' = [result EXCEPT ![t] = respond(result[t])]
    /\ UNCHANGED <<_is_connected, device, running, pc, args, retry_count,
                   caller, trace, pre>>

\* MyJDClient.is_connected called by a client of the controller
call_is_connected(t) ==
    /\ Enter(t, "is_connected", NoArgs)
    /\ trace' = [trace EXCEPT ![t] = <<>>]
    /\ result' = [result EXCEPT ![t] = Ret(is_connected(_is_connected, device))]
    /\ UNCHANGED <<_is_connected, device, pc, caller>>

\* add_download_package: the elif chain of lines 115-124
add_validate(t) ==
    /\ pc[t] = "add_validate"
    /\ LET v == validate_add(IsConnected, args[t])
       IN IF v = "submit"
          THEN /\ pc' = [pc EXCEPT ![t] = "remote_call"]
               /\ UNCHANGED result
          ELSE /\ pc' = [pc EXCEPT ![t] = "idle"]
               /\ result' = [result EXCEPT ![t] = Soft(v)]
    /\ UNCHANGED <<_is_connected, device, running, op, args, retry_count,
                   caller, trace, pre>>

\* faulty variant: the operation does not check is_connected() first
call_guarded_Mut(t, o, a, skip) ==
    /\ Enter(t, o, a)
    /\ trace' = [trace EXCEPT ![t] = <<>>]
    /\ IF skip
       THEN /\ pc' = [pc EXCEPT ![t] = "idle"]
            /\ result' = [result EXCEPT ![t] = Ret(OpReturn(o, <<>>))]
       ELSE /\ pc' = [pc EXCEPT ![t] = "remote_call"]
            /\ result' = [result EXCEPT ![t] = NoResult]
    /\ UNCHANGED <<_is_connected, device, caller>>

\* the shared prologue of the query and control operations: raise
\* MyJDConnectionError unless connected; skip = the executor has nothing to
\* call (a non-empty package_ids is only logged)
call_guarded(t, o, a, skip) ==
    /\ Enter(t, o, a)
    /\ trace' = [trace EXCEPT ![t] = <<>>]
    /\ IF ~IsConnected
       THEN /\ pc' = [pc EXCEPT ![t] = "idle"]
            /\ result' = [result EXCEPT ![t] = Raise("MyJDConnectionError")]
       ELSE IF skip
       THEN /\ pc' = [pc EXCEPT ![t] = "idle"]
            /\ result' = [result EXCEPT ![t] = Ret(OpReturn(o, <<>>))]
       ELSE /\ pc' = [pc EXCEPT ![t] = "remote_call"]
            /\ result' = [result EXCEPT ![t] = NoResult]
    /\ UNCHANGED <<_is_connected, device, caller>>

call_get_download_packages(t) ==
    call_guarded(t, "get_download_packages", NoArgs, FALSE)

\* api_routes.get_downloads up to and including its call of
\* client.get_download_packages()
route_get_downloads(t) ==
    call_guarded(t, "get_download_packages", [NoArgs EXCEPT !.via = "route"], FALSE)

\* GET /downloads: the handler turns what get_download_packages gave it
\* into its answer
get_downloads_respond(t) ==
    /\ AwaitingResponse(t)
    /\ op[t] = "get_download_packages"
    /\ op' = [op EXCEPT ![t] = "route_get_downloads"]
    /\ result' = [result EXCEPT ![t] = respond_get_downloads(result[t])]
    /\ UNCHANGED <<_is_connected, device, running, pc, args, retry_count,
                   caller, trace, pre>>

call_get_linkgrabber_packages(t) ==
    call_guarded(t, "get_linkgrabber_packages", NoArgs, FALSE)

call_start_downloads(t) ==
    \E p \in PackageIdArgs :
        call_guarded(t, "start_downloads", [NoArgs EXCEPT !.package_ids = p],
                     truthy(p))

call_pause_downloads(t) ==
    \E p \in PackageIdArgs :
        call_guarded(t, "pause_downloads", [NoArgs EXCEPT !.package_ids = p],
                     truthy(p))

\* faulty variant: the executor keeps calling the handle the operation
\* started with
remote_call_Stale(t) ==
    /\ pc[t] = "remote_call"
    /\ IF device = NoDevice
       THEN /\ trace' = [trace EXCEPT ![t] =
                  Append(@, Ev(RemoteOf(op[t]), "AttributeError", NoDevice,
                               [arg |-> RemoteArg(op[t], args[t]), val |-> <<>>]))]
            /\ pc' = [pc EXCEPT ![t] = "idle"]
            /\ result' = [result EXCEPT ![t] = Raise(OpExcept("AttributeError"))]
       ELSE /\ trace' = [trace EXCEPT ![t] =
                  Append(@, Ev(RemoteOf(op[t]), "pending", pre[t].device,
                               [arg |-> RemoteArg(op[t], args[t]), val |-> <<>>]))]
            /\ pc' = [pc EXCEPT ![t] = "remote_wait"]
            /\ UNCHANGED result
    /\ UNCHANGED <<_is_connected, device, running, op, args, retry_count,
                   caller, pre>>

\* one attempt of an executor, first half: self.device is read and the
\* device call is made on that handle; the thread then waits inside the
\* call (the event is logged with out = "pending")
remote_call(t) ==
    /\ pc[t] = "remote_call"
    /\ IF device = NoDevice
       THEN \* self.device is None: the attribute access raises AttributeError
            /\ trace' = [trace EXCEPT ![t] =
                  Append(@, Ev(RemoteOf(op[t]), "AttributeError", NoDevice,
                               [arg |-> RemoteArg(op[t], args[t]), val |-> <<>>]))]
            /\ pc' = [pc EXCEPT ![t] = "idle"]
            /\ result' = [result EXCEPT ![t] = Raise(OpExcept("AttributeError"))]
       ELSE /\ trace' = [trace EXCEPT ![t] =
                  Append(@, Ev(RemoteOf(op[t]), "pending", device,
                               [arg |-> RemoteArg(op[t], args[t]), val |-> <<>>]))]
            /\ pc' = [pc EXCEPT ![t] = "remote_wait"]
            /\ UNCHANGED result
    /\ UNCHANGED <<_is_connected, device, running, op, args, retry_count,
                   caller, pre>>

\* the pending event of thread t, answered with out and val
AnswerOf(t, out, val) ==
    LET e == trace[t][Len(trace[t])]
    IN SubSeq(trace[t], 1, Len(trace[t]) - 1)
         \o <<Ev(e.ev, out, e.dev, [arg |-> e.data.arg, val |-> val])>>

\* faulty variant: a failed device call marks the session disconnected
remote_answer_Mut(t) ==
    /\ pc[t] = "remote_wait"
    /\ \E out \in {"ok", "token_invalid", "error"} :
       \E val \in IF out = "ok" THEN RemoteValues(op[t]) ELSE {<<>>} :
         /\ trace' = [trace EXCEPT ![t] = AnswerOf(t, out, val)]
         /\ IF out = "ok"
            THEN /\ pc' = [pc EXCEPT ![t] = "idle"]
                 /\ result' = [result EXCEPT ![t] = Ret(OpReturn(op[t], val))]
            ELSE IF IsTokenInvalid(out)
            THEN IF CanRetry(retry_count[t])
                 THEN /\ pc' = [pc EXCEPT ![t] = "refresh_reconnect"]
                      /\ UNCHANGED result
                 ELSE /\ pc' = [pc EXCEPT ![t] = "idle"]
                      /\ result' = [result EXCEPT ![t] =
                            Raise(OpExcept("MyJDOperationError"))]
            ELSE /\ pc' = [pc EXCEPT ![t] = "idle"]
                 /\ result' = [result EXCEPT ![t] = Raise(OpExcept("Exception"))]
         /\ _is_connected' = IF out = "error" THEN FALSE ELSE _is_connected
    /\ UNCHANGED <<device, running, op, args, retry_count, caller, pre>>

\* one attempt of an executor, second half: the device call returns or
\* raises, and the except branches of the executor run; the operation's own
\* handler wraps whatever escapes
remote_answer(t) ==
    /\ pc[t] = "remote_wait"
    /\ \E out \in {"ok", "token_invalid", "error"} :
       \E val \in IF out = "ok" THEN RemoteValues(op[t]) ELSE {<<>>} :
         /\ trace' = [trace EXCEPT ![t] = AnswerOf(t, out, val)]
         /\ IF out = "ok"
            THEN /\ pc' = [pc EXCEPT ![t] = "idle"]
                 /\ result' = [result EXCEPT ![t] = Ret(OpReturn(op[t], val))]
            ELSE IF IsTokenInvalid(out)
            THEN IF CanRetry(retry_count[t])
                 THEN /\ pc' = [pc EXCEPT ![t] = "refresh_reconnect"]
                      /\ UNCHANGED result
                 ELSE /\ pc' = [pc EXCEPT ![t] = "idle"]
                      /\ result' = [result EXCEPT ![t] =
                            Raise(OpExcept("MyJDOperationError"))]
            ELSE /\ pc' = [pc EXCEPT ![t] = "idle"]
                 /\ result' = [result EXCEPT ![t] = Raise(OpExcept("Exception"))]
    /\ UNCHANGED <<_is_connected, device, running, op, args, retry_count,
                   caller, pre>>

\* faulty variant: _refresh_connection runs the full connect() even when the
\* reconnect succeeded
jd_reconnect_Mut(t) ==
    /\ pc[t] = "refresh_reconnect"
    /\ \E out \in {"ok", "raise"} :
         /\ pc' = [pc EXCEPT ![t] = "connect_auth"]
         /\ caller' = [caller EXCEPT ![t] = "_refresh_connection"]
         /\ trace' = [trace EXCEPT ![t] = Append(@, Ev("jd.reconnect", out, NoDevice, <<>>))]
         /\ UNCHANGED <<result, retry_count>>
    /\ UNCHANGED <<_is_connected, device, running, op, args, pre>>

\* _refresh_connection: self.jd.reconnect(); on failure the full connect()
jd_reconnect(t) ==
    /\ pc[t] = "refresh_reconnect"
    /\ \E out \in {"ok", "raise"} :
         LET e == Ev("jd.reconnect", out, NoDevice, <<>>)
             nx == after_refresh(TRUE, retry_count[t])
         IN IF out = "ok"
            THEN /\ pc' = [pc EXCEPT ![t] = nx.pc]
                 /\ result' = [result EXCEPT ![t] = nx.result]
                 /\ retry_count' = [retry_count EXCEPT ![t] = nx.rc]
                 /\ trace' = [trace EXCEPT ![t] =
                       @ \o <<e, Ev("_refresh_connection", "True", NoDevice, <<>>)>>]
                 /\ UNCHANGED caller
            ELSE /\ pc' = [pc EXCEPT ![t] = "connect_auth"]
                 /\ caller' = [caller EXCEPT ![t] = "_refresh_connection"]
                 /\ trace' = [trace EXCEPT ![t] = Append(@, e)]
                 /\ UNCHANGED <<result, retry_count>>
    /\ UNCHANGED <<_is_connected, device, running, op, args, pre>>

Next ==
    \E t \in Threads :
        \/ call_connect(t)
        \/ jd_connect(t)
        \/ jd_get_device(t)
        \/ call_disconnect(t)
        \/ jd_disconnect(t)
        \/ route_connect(t)
        \/ call_add_download_package(t)
        \/ route_add_download(t)
        \/ add_download_respond(t)
        \/ call_is_connected(t)
        \/ add_validate(t)
        \/ call_get_download_packages(t)
        \/ route_get_downloads(t)
        \/ get_downloads_respond(t)
        \/ call_get_linkgrabber_packages(t)
        \/ call_start_downloads(t)
        \/ call_pause_downloads(t)
        \/ remote_call(t)
        \/ remote_answer(t)
        \/ jd_reconnect(t)

Spec == Init /\ [][Next]_vars

\* ------------------------------------------------- reading an invocation
\* an event of the trace that is an invocation of a device call
Invoked(e) == e.ev \in {RemoteOf(o) : o \in DomainOps} /\ e.out # "AttributeError"

\* the device calls the current / last operation of thread t has made
Calls(t) == SelectSeq(trace[t], Invoked)

IsReconnect(e) == e.ev = "jd.reconnect"
IsRefreshReturn(e) == e.ev = "_refresh_connection"
IsAuth(e) == e.ev \in {"jd.connect", "jd.get_device"}

\* what _refresh_connection returned in this invocation, in order
RefreshReturns(t) == SelectSeq(trace[t], IsRefreshReturn)

Finished(t) == pc[t] = "idle" /\ op[t] # "none"

AllTokenInvalid(t) == \A i \in 1..Len(Calls(t)) : Calls(t)[i].out = "token_invalid"

\* the operation ended in a token failure it did not recover from
Unrecovered(t) ==
    /\ Finished(t)
    /\ op[t] \in DomainOps
    /\ result[t].kind = "MyJDOperationError"
    /\ \/ \E i \in 1..Len(RefreshReturns(t)) : RefreshReturns(t)[i].out = "False"
       \/ /\ Len(Calls(t)) >= 2
          /\ Calls(t)[Len(Calls(t))].out = "token_invalid"

\* ------------------------------------------------------------------ claims

\* C1: retry bound. While every device call of a domain operation has raised
\* token-invalid, the operation has made at most 2 device calls, and once it
\* has finished it has raised MyJDOperationError.
C1_RetryBound ==
    \A t \in Threads :
        (op[t] \in DomainOps /\ Len(Calls(t)) >= 1 /\ AllTokenInvalid(t)) =>
            /\ Len(Calls(t)) <= 2
            /\ Finished(t) => result[t].kind = "MyJDOperationError"

\* C1 witness: a pause_downloads that made two device calls, both answered
\* token-invalid, and ended in MyJDOperationError.
C1_Witness ==
    \E t \in Threads :
        /\ Finished(t) /\ op[t] = "pause_downloads"
        /\ Len(Calls(t)) = 2 /\ AllTokenInvalid(t)
        /\ result[t].kind = "MyJDOperationError"

\* the value the caller must see when the device call answered raw
Expected(t, raw) ==
    CASE op[t] = "add_download_package" ->
            result[t].val.success = TRUE
      [] op[t] = "get_download_packages" ->
            /\ Len(result[t].val) = Len(raw)
            /\ \A i \in 1..Len(raw) :
                 result[t].val[i].package_id = Get(raw[i], "uuid", "")
      [] op[t] = "get_linkgrabber_packages" -> result[t].val = raw
      [] op[t] \in {"start_downloads", "pause_downloads"} -> result[t].val = TRUE

\* the invocation saw token-invalid, a successful refresh, then a success
Recovered(t) ==
    /\ Finished(t) /\ op[t] \in DomainOps
    /\ Len(Calls(t)) = 2
    /\ Calls(t)[1].out = "token_invalid"
    /\ Calls(t)[2].out = "ok"
    /\ Len(RefreshReturns(t)) = 1 /\ RefreshReturns(t)[1].out = "True"

\* C2: transparent recovery. A domain operation whose first device call
\* raised token-invalid, whose refresh succeeded and whose second call
\* succeeded returns normally with the second call's result.
C2_TransparentRecovery ==
    \A t \in Threads :
        Recovered(t) =>
            /\ result[t].kind = "return"
            /\ Expected(t, Calls(t)[2].data.val)

\* C2 witness: a recovered get_linkgrabber_packages whose second call
\* answered a non-empty record list.
C2_Witness ==
    \E t \in Threads :
        /\ Recovered(t) /\ op[t] = "get_linkgrabber_packages"
        /\ Len(Calls(t)[2].data.val) >= 1
        /\ result[t].kind = "return"

\* the first device call raised token-invalid and the refresh returned False
RefreshFailed(t) ==
    /\ op[t] \in DomainOps
    /\ Len(Calls(t)) >= 1 /\ Calls(t)[1].out = "token_invalid"
    /\ Len(RefreshReturns(t)) >= 1 /\ RefreshReturns(t)[1].out = "False"

\* C3: when the first device call raises token-invalid and
\* _refresh_connection returns False, the operation raises
\* MyJDOperationError having made exactly one device call.
C3_RefreshFailureStops ==
    \A t \in Threads :
        RefreshFailed(t) =>
            /\ Len(Calls(t)) = 1
            /\ Finished(t)
            /\ result[t].kind = "MyJDOperationError"

\* C3 witness: a get_linkgrabber_packages whose reconnect and fallback
\* connect both failed.
C3_Witness ==
    \E t \in Threads :
        /\ RefreshFailed(t) /\ op[t] = "get_linkgrabber_packages"
        /\ Finished(t) /\ result[t].kind = "MyJDOperationError"

\* C4: a device call that fails with an error other than token-invalid is
\* the last thing the operation does with the collaborator: no refresh and
\* no further device call follow, and the operation raises
\* MyJDOperationError.
C4_OtherErrorNoRetry ==
    \A t \in Threads :
        op[t] \in DomainOps =>
            \A i \in 1..Len(trace[t]) :
                (Invoked(trace[t][i]) /\ trace[t][i].out = "error") =>
                    /\ i = Len(trace[t])
                    /\ Finished(t)
                    /\ result[t].kind = "MyJDOperationError"

\* C4 witness: an add_download_package whose retry (second attempt) failed
\* with a non-token error.
C4_Witness ==
    \E t \in Threads :
        /\ Finished(t) /\ op[t] = "add_download_package"
        /\ Len(Calls(t)) = 2
        /\ Calls(t)[1].out = "token_invalid" /\ Calls(t)[2].out = "error"
        /\ result[t].kind = "MyJDOperationError"

\* C5: token-invalid never leaks. A finished domain operation returned
\* normally or raised MyJDConnectionError or MyJDOperationError.
C5_OnlyDeclaredErrors ==
    \A t \in Threads :
        (Finished(t) /\ op[t] \in DomainOps) =>
            result[t].kind \in {"return", "MyJDConnectionError", "MyJDOperationError"}

\* C5 witness: a start_downloads whose two device calls both raised
\* token-invalid and which surfaced MyJDOperationError.
C5_Witness ==
    \E t \in Threads :
        /\ Finished(t) /\ op[t] = "start_downloads"
        /\ Len(Calls(t)) = 2 /\ AllTokenInvalid(t)
        /\ result[t].kind = "MyJDOperationError"

\* connect() failed: jd.connect raised, or jd.get_device gave no device
ConnectFailed(t) ==
    /\ Finished(t) /\ op[t] = "connect"
    /\ Len(trace[t]) >= 1
    /\ LET e == trace[t][Len(trace[t])]
       IN \/ e.ev = "jd.connect" /\ e.out = "raise"
          \/ e.ev = "jd.get_device" /\ e.out \in {"none", "raise"}

\* C6: a connect() whose authentication failed or whose device lookup gave
\* no device raises MyJDConnectionError, and if is_connected() was false
\* when it was called it is false afterwards.
C6_ConnectFailure ==
    \A t \in Threads :
        ConnectFailed(t) =>
            /\ result[t].kind = "MyJDConnectionError"
            /\ ~pre[t].connected => ~IsConnected

\* C6 witness: a connect() called after a disconnect (a stale handle is
\* still stored) whose device lookup raised.
C6_Witness ==
    \E t \in Threads :
        /\ ConnectFailed(t)
        /\ ~pre[t].connected /\ pre[t].device # NoDevice
        /\ trace[t][Len(trace[t])].ev = "jd.get_device"
        /\ trace[t][Len(trace[t])].out = "raise"
        /\ result[t].kind = "MyJDConnectionError"

\* C7 (as claimed): an operation called while is_connected() is true leaves
\* it true unless the operation is disconnect() or ends in an unrecovered
\* token failure.
C7_StaysConnected ==
    \A t \in Threads :
        (Finished(t) /\ pre[t].connected /\ op[t] # "disconnect" /\ ~Unrecovered(t))
            => IsConnected

\* C8 (as claimed): after a domain operation ended in an unrecovered token
\* failure is_connected() is false.
C8_UnrecoveredDisconnects ==
    \A t \in Threads : Unrecovered(t) => ~IsConnected

\* C9 (as claimed): MyJDClient.connect() called while is_connected() is true
\* issues no jd.connect and no jd.get_device, returns True and leaves the
\* session as it was.
C9_ConnectIdempotent ==
    \A t \in Threads :
        (op[t] = "connect" /\ pre[t].connected) =>
            /\ Len(SelectSeq(trace[t], IsAuth)) = 0
            /\ Finished(t) => (result[t].kind = "return" /\ Session = pre[t])

\* C10 (as claimed): disconnect() returns normally and is_connected() is
\* false afterwards, whatever jd.disconnect did.
C10_DisconnectClears ==
    \A t \in Threads :
        (Finished(t) /\ op[t] = "disconnect") =>
            /\ result[t].kind = "return"
            /\ ~IsConnected

\* the number of events of thread t's trace that satisfy Test
Count(t, Test(_)) == Len(SelectSeq(trace[t], Test))

\* C12: _refresh_connection calls jd.reconnect first; the full connect()
\* follows only a reconnect that raised; it returns True exactly when the
\* reconnect succeeded or the fallback connect() succeeded, False otherwise,
\* and every refresh of a finished operation has returned (it never raises).
C12_RefreshTwoTier ==
    \A t \in Threads :
        op[t] \in DomainOps =>
            /\ \A i \in 1..Len(trace[t]) :
                 LET e == trace[t][i] IN
                 /\ (e.ev = "jd.reconnect" /\ e.out = "ok") =>
                        /\ i < Len(trace[t])
                        /\ trace[t][i + 1].ev = "_refresh_connection"
                        /\ trace[t][i + 1].out = "True"
                 /\ (e.ev = "jd.reconnect" /\ e.out = "raise" /\ i < Len(trace[t])) =>
                        trace[t][i + 1].ev = "jd.connect"
                 /\ (e.ev = "jd.connect" /\ i > 1) =>
                        /\ trace[t][i - 1].ev = "jd.reconnect"
                        /\ trace[t][i - 1].out = "raise"
                 /\ e.ev = "_refresh_connection" =>
                        /\ i > 1
                        /\ trace[t][i - 1].ev \in {"jd.reconnect", "jd.connect", "jd.get_device"}
                        /\ (e.out = "True") <=>
                               /\ trace[t][i - 1].ev \in {"jd.reconnect", "jd.get_device"}
                               /\ trace[t][i - 1].out = "ok"
            /\ Finished(t) => Count(t, IsReconnect) = Count(t, IsRefreshReturn)

\* C12 witness: a finished operation whose reconnect raised and whose
\* fallback connect() succeeded, so that the refresh returned True.
C12_Witness ==
    \E t \in Threads :
        /\ Finished(t) /\ op[t] \in DomainOps
        /\ \E i \in 1..Len(trace[t]) :
             /\ trace[t][i].ev = "jd.reconnect" /\ trace[t][i].out = "raise"
             /\ i + 3 <= Len(trace[t])
             /\ trace[t][i + 2].ev = "jd.get_device" /\ trace[t][i + 2].out = "ok"
             /\ trace[t][i + 3].ev = "_refresh_connection"
             /\ trace[t][i + 3].out = "True"

\* add_download_package was called while not connected and its lazy
\* connect() raised (jd.connect raised, or jd.get_device gave no device)
LazyConnectFailed(t) ==
    /\ op[t] = "add_download_package" /\ ~pre[t].connected
    /\ Len(trace[t]) >= 1 /\ trace[t][1].ev = "jd.connect"
    /\ \/ trace[t][1].out = "raise"
       \/ /\ Len(trace[t]) >= 2
          /\ trace[t][2].ev = "jd.get_device"
          /\ trace[t][2].out \in {"none", "raise"}

\* C13: add_download_package called while not connected first calls
\* connect(); when that connect raises, the call has finished, returning
\* success = False with the connection-error message, with no exception and
\* no device call.
C13_LazyConnect ==
    \A t \in Threads :
        /\ (op[t] = "add_download_package" /\ ~pre[t].connected) =>
               /\ pc[t] \in {"connect_auth", "connect_get_device"} \/ Len(trace[t]) >= 1
               /\ Len(trace[t]) >= 1 => trace[t][1].ev = "jd.connect"
        /\ LazyConnectFailed(t) =>
               /\ Finished(t)
               /\ result[t].kind = "return"
               /\ result[t].val.success = FALSE
               /\ result[t].val.message = "Connection error"
               /\ Len(Calls(t)) = 0
               /\ Len(trace[t]) <= 2

\* C13 witness: an add_download_package whose lazy connect authenticated
\* but found no device.
C13_Witness ==
    \E t \in Threads :
        /\ LazyConnectFailed(t) /\ Finished(t)
        /\ Len(trace[t]) = 2 /\ trace[t][2].out = "none"
        /\ result[t].val.success = FALSE

\* the thread's add_download_package got past its connectivity preamble:
\* it was connected when called, or its lazy connect() succeeded
PreambleOk(t) ==
    \/ pre[t].connected
    \/ /\ Len(trace[t]) >= 2
       /\ trace[t][1].ev = "jd.connect" /\ trace[t][1].out = "ok"
       /\ trace[t][2].ev = "jd.get_device" /\ trace[t][2].out = "ok"

\* the result of thread t is the soft failure with message msg
SoftFailure(t, msg) ==
    /\ result[t].kind = "return"
    /\ result[t].val.success = FALSE
    /\ result[t].val.message = msg

BadCategory(a) == a.category \notin {"tv_show", "movie"}

\* C14 (as claimed): a finished add_download_package with empty links
\* returned success = False with "No download links provided", and with
\* links and a disallowed category "Invalid category"; nothing was submitted.
C14_SoftValidation ==
    \A t \in Threads :
        (Finished(t) /\ op[t] = "add_download_package") =>
            /\ Len(args[t].links) = 0 =>
                   SoftFailure(t, "No download links provided") /\ Len(Calls(t)) = 0
            /\ (Len(args[t].links) > 0 /\ BadCategory(args[t])) =>
                   SoftFailure(t, "Invalid category") /\ Len(Calls(t)) = 0

\* C14 (amended): an add_download_package with empty links or a disallowed
\* category never submits and, once finished, returned success = False
\* without raising; the message is "No download links provided" resp.
\* "Invalid category" when the call got past the connectivity preamble.
C14_SoftValidationConnected ==
    \A t \in Threads :
        (op[t] = "add_download_package"
           /\ (Len(args[t].links) = 0 \/ BadCategory(args[t]))) =>
            /\ Len(Calls(t)) = 0
            /\ pc[t] \notin {"remote_call", "remote_wait"}
            /\ Finished(t) =>
                 /\ result[t].kind = "return" /\ result[t].val.success = FALSE
                 /\ PreambleOk(t) =>
                      IF Len(args[t].links) = 0
                      THEN SoftFailure(t, "No download links provided")
                      ELSE SoftFailure(t, "Invalid category")

\* C14 witness: a call with links and category "horror" whose lazy connect
\* succeeded and which returned "Invalid category".
C14_Witness ==
    \E t \in Threads :
        /\ Finished(t) /\ op[t] = "add_download_package"
        /\ Len(args[t].links) > 0 /\ args[t].category = "horror"
        /\ ~pre[t].connected /\ PreambleOk(t)
        /\ SoftFailure(t, "Invalid category")

IsSubmit(e) == e.ev = "linkgrabber.add_links"

\* the submissions add_download_package attempted in this invocation
Submits(t) == SelectSeq(trace[t], IsSubmit)

\* C15: a finished add_download_package that attempted a submission which
\* did not succeed raised MyJDOperationError; one that returned
\* success = False attempted no submission and carries a connection or
\* validation message.
C15_Asymmetry ==
    \A t \in Threads :
        (Finished(t) /\ op[t] = "add_download_package") =>
            /\ (Len(Submits(t)) >= 1 /\ Submits(t)[Len(Submits(t))].out # "ok") =>
                   result[t].kind = "MyJDOperationError"
            /\ (result[t].kind = "return" /\ result[t].val.success = FALSE) =>
                   /\ Len(Submits(t)) = 0
                   /\ result[t].val.message \in
                        {"Connection error", "Not connected to MyJDownloader",
                         "No download links provided", "Invalid category"}

\* C15 witness: a valid package whose submission raised token-invalid and
\* whose refresh failed, ending in MyJDOperationError.
C15_Witness ==
    \E t \in Threads :
        /\ Finished(t) /\ op[t] = "add_download_package"
        /\ Len(Submits(t)) = 1 /\ Submits(t)[1].out = "token_invalid"
        /\ Len(RefreshReturns(t)) = 1 /\ RefreshReturns(t)[1].out = "False"
        /\ result[t].kind = "MyJDOperationError"

GuardedOps == {"get_download_packages", "get_linkgrabber_packages",
               "start_downloads", "pause_downloads"}

\* C16: a query or control operation called while is_connected() is false
\* has finished at once with MyJDConnectionError, made no collaborator call
\* (no connect, no device call) and left the session as it was.
C16_NotConnectedRaises ==
    \A t \in Threads :
        (op[t] \in GuardedOps /\ ~pre[t].connected) =>
            /\ Finished(t)
            /\ result[t].kind = "MyJDConnectionError"
            /\ Len(trace[t]) = 0
            /\ Session = pre[t]

\* C16 witness: a pause_downloads refused while a stale handle is stored
\* but the flag is down.
C16_Witness ==
    \E t \in Threads :
        /\ Finished(t) /\ op[t] = "pause_downloads"
        /\ ~pre[t].connected /\ pre[t].device # NoDevice
        /\ result[t].kind = "MyJDConnectionError"

\* package_ids names at least one package
HasIds(a) == a.package_ids.given /\ Len(a.package_ids.ids) >= 1

\* C17: start_downloads / pause_downloads called while connected: with a
\* non-empty package_ids no collaborator call is made and True is returned;
\* with absent or empty package_ids the start / pause device call is made,
\* and True is returned when the last attempt succeeded.
C17_StartPause ==
    \A t \in Threads :
        (op[t] \in {"start_downloads", "pause_downloads"} /\ pre[t].connected) =>
            IF HasIds(args[t])
            THEN /\ Finished(t) /\ Len(trace[t]) = 0
                 /\ result[t].kind = "return" /\ result[t].val = TRUE
            ELSE /\ pc[t] = "remote_call" \/ Len(Calls(t)) >= 1
                 /\ Len(Calls(t)) >= 1 =>
                      Calls(t)[1].ev = IF op[t] = "start_downloads"
                                       THEN "downloadcontroller.start_downloads"
                                       ELSE "downloadcontroller.pause_downloads"
                 /\ (Finished(t) /\ Calls(t)[Len(Calls(t))].out = "ok") =>
                      result[t].kind = "return" /\ result[t].val = TRUE

\* C17 witness: a start_downloads given an empty list that called the
\* device and returned True.
C17_Witness ==
    \E t \in Threads :
        /\ Finished(t) /\ op[t] = "start_downloads" /\ pre[t].connected
        /\ args[t].package_ids.given /\ Len(args[t].package_ids.ids) = 0
        /\ Len(Calls(t)) = 1 /\ Calls(t)[1].out = "ok"
        /\ result[t].val = TRUE

\* the request is malformed: blank name, no links, or a disallowed category
Invalid(a) == a.name \in {"", " "} \/ Len(a.links) = 0 \/ BadCategory(a)

\* C18 (as claimed): a malformed request, whether posted to /downloads or
\* given to add_download_package directly, never reaches a submission and
\* ends as a soft failure.
C18_InvalidNeverSubmitted ==
    \A t \in Threads :
        (op[t] \in {"add_download_package", "route_add_download"}
           /\ Invalid(args[t])) =>
            /\ Len(Submits(t)) = 0
            /\ Finished(t) =>
                 /\ result[t].kind = "return"
                 /\ result[t].val.success = FALSE

\* C18 (amended): a malformed request posted to /downloads is answered 400
\* validation_error before the client is called; add_download_package
\* called directly never submits and returns success = False when the links
\* are empty or the category is disallowed (it does not check the name).
C18_InvalidRejected ==
    \A t \in Threads :
        /\ (op[t] \in {"add_download_package", "route_add_download"}
              /\ args[t].via = "route" /\ Invalid(args[t])) =>
               /\ op[t] = "route_add_download" /\ Finished(t)
               /\ Len(trace[t]) = 0
               /\ result[t].val.status = 400
               /\ result[t].val.message = "validation_error"
        /\ (op[t] = "add_download_package" /\ args[t].via = "direct"
              /\ (Len(args[t].links) = 0 \/ BadCategory(args[t]))) =>
               /\ Len(Submits(t)) = 0
               /\ Finished(t) =>
                    result[t].kind = "return" /\ result[t].val.success = FALSE

\* C18 witness: a POST /downloads with a blank name, links and an allowed
\* category, answered 400.
C18_Witness ==
    \E t \in Threads :
        /\ Finished(t) /\ op[t] = "route_add_download"
        /\ args[t].name = " " /\ Len(args[t].links) > 0 /\ ~BadCategory(args[t])
        /\ result[t].val.status = 400

\* C19: is_connected() returns True exactly when _is_connected is set and a
\* device handle is stored; it makes no collaborator call and leaves the
\* session as it was.
C19_IsConnectedPure ==
    \A t \in Threads :
        (Finished(t) /\ op[t] = "is_connected") =>
            /\ result[t].kind = "return"
            /\ result[t].val = (_is_connected /\ device # NoDevice)
            /\ Len(trace[t]) = 0
            /\ _is_connected = pre[t].flag /\ device = pre[t].device

\* C19 witness: is_connected() answering False while the flag is set but no
\* handle is stored.
C19_Witness ==
    \E t \in Threads :
        /\ Finished(t) /\ op[t] = "is_connected"
        /\ _is_connected /\ device = NoDevice
        /\ result[t].val = FALSE

IsConnectCall(e) == e.ev = "jd.connect"

\* C20: one recovery cycle per invocation. A domain operation calls
\* jd.reconnect at most once and _refresh_connection returns at most once;
\* at most one jd.connect follows the reconnect; and the reconnect comes
\* directly after the first device call, which raised token-invalid.
C20_OneRecoveryCycle ==
    \A t \in Threads :
        op[t] \in DomainOps =>
            /\ Count(t, IsReconnect) <= 1
            /\ Count(t, IsRefreshReturn) <= 1
            /\ \A i \in 1..Len(trace[t]) :
                 trace[t][i].ev = "jd.reconnect" =>
                    /\ i > 1
                    /\ Invoked(trace[t][i - 1])
                    /\ trace[t][i - 1].out = "token_invalid"
                    /\ Len(SelectSeq(SubSeq(trace[t], 1, i), Invoked)) = 1
                    /\ Len(SelectSeq(SubSeq(trace[t], i, Len(trace[t])),
                                     IsConnectCall)) <= 1
            /\ pc[t] = "refresh_reconnect" =>
                 /\ Len(Calls(t)) = 1 /\ Calls(t)[1].out = "token_invalid"

\* C20 witness: an operation that refreshed once through the fallback
\* connect and whose second device call raised token-invalid again.
C20_Witness ==
    \E t \in Threads :
        /\ Finished(t) /\ op[t] \in DomainOps
        /\ Count(t, IsReconnect) = 1
        /\ Len(SelectSeq(trace[t], IsConnectCall)) >= 1
        /\ Len(Calls(t)) = 2 /\ AllTokenInvalid(t)

\* ------------------------------------------------- concurrent requests
\* the session is shared by the worker threads of the server: two of them
\* serve requests at the same time
ConcInit ==
    /\ _is_connected = FALSE
    /\ device = NoDevice
    /\ running = {1, 2}
    /\ pc = [t \in Threads |-> "idle"]
    /\ op = [t \in Threads |-> "none"]
    /\ args = [t \in Threads |-> NoArgs]
    /\ retry_count = [t \in Threads |-> 0]
    /\ caller = [t \in Threads |-> "none"]
    /\ trace = [t \in Threads |-> <<>>]
    /\ pre = [t \in Threads |-> [flag |-> FALSE, device |-> NoDevice, connected |-> FALSE]]
    /\ result = [t \in Threads |-> NoResult]

\* start_downloads() with package_ids left at its default None
call_start_all(t) ==
    call_guarded(t, "start_downloads", NoArgs, truthy(NoArgs.package_ids))

\* the steps of connect, disconnect and start_downloads, taken by either
\* thread in any order: the client holds no lock
NextConc ==
    \E t \in Threads :
        \/ call_connect(t)
        \/ jd_connect(t)
        \/ jd_get_device(t)
        \/ call_disconnect(t)
        \/ jd_disconnect(t)
        \/ call_start_all(t)
        \/ remote_call(t)
        \/ remote_answer(t)
        \/ jd_reconnect(t)

SpecConc == ConcInit /\ [][NextConc]_vars

\* thread t is inside connect(), disconnect() or _refresh_connection()
InSessionChange(t) ==
    pc[t] \in {"connect_auth", "connect_get_device", "disconnect_call",
               "refresh_reconnect"}

\* thread t saw token-invalid on its first attempt and is inside
\* _refresh_connection()
InRefresh(t) ==
    /\ op[t] \in DomainOps
    /\ pc[t] \in {"connect_auth", "connect_get_device", "refresh_reconnect"}
    /\ Len(Calls(t)) = 1 /\ Calls(t)[1].out = "token_invalid"

\* C11: refresh is serialized. While a domain operation is inside
\* _refresh_connection() after a token-invalid, no other thread is inside
\* connect(), disconnect() or _refresh_connection(), so two operations that
\* saw the same expiry never both issue a reconnect.
C11_RefreshSerialized ==
    \A t1, t2 \in Threads :
        (t1 # t2 /\ InRefresh(t1)) =>
            /\ ~InSessionChange(t2)
            /\ ~(InRefresh(t2) /\ Count(t1, IsReconnect) + Count(t2, IsReconnect) >= 1)

\* thread t starts the executor of a domain operation in this step
StartsInvocation(t) ==
    pc[t] = "idle" /\ pc'[t] # "idle" /\ op'[t] \in DomainOps

\* the first device call of thread t's invocation raises token-invalid in
\* this step
FirstTokenInvalid(t) ==
    /\ pc[t] = "remote_wait" /\ Len(Calls(t)) = 1
    /\ Len(trace'[t]) = Len(trace[t])
    /\ trace'[t][Len(trace'[t])].out = "token_invalid"

\* C21: retry state is per invocation. Every step that starts a domain
\* operation leaves its retry_count at 0, whatever the thread's previous
\* invocation and the other threads did; the retry_count of a running
\* invocation only changes from 0 to 1, when its own refresh returned True;
\* and a first attempt that raises token-invalid always goes on to refresh.
C21_RetryPerInvocation ==
    [][\A t \in Threads :
         /\ StartsInvocation(t) => retry_count'[t] = 0
         /\ (pc[t] # "idle" /\ retry_count'[t] # retry_count[t]) =>
               /\ retry_count[t] = 0 /\ retry_count'[t] = 1
               /\ pc[t] \in {"refresh_reconnect", "connect_get_device"}
               /\ pc'[t] = "remote_call"
               /\ trace'[t][Len(trace'[t])] = Ev("_refresh_connection", "True", NoDevice, <<>>)
         /\ FirstTokenInvalid(t) => pc'[t] = "refresh_reconnect"]_vars

\* C21 witness: one thread's invocation exhausted its retry and raised,
\* while another thread's invocation is on the retry its own refresh
\* earned it.
C21_Witness ==
    \E t, u \in Threads :
        /\ t # u
        /\ Unrecovered(u) /\ Len(Calls(u)) = 2
        /\ op[t] \in DomainOps /\ pc[t] = "remote_call"
        /\ retry_count[t] = 1 /\ Len(Calls(t)) = 1

\* _refresh_connection() of thread t returns out ("True" / "False") in this
\* step
RefreshReturnsNow(t, out) ==
    /\ pc[t] \in {"refresh_reconnect", "connect_auth", "connect_get_device"}
    /\ Len(trace'[t]) > Len(trace[t])
    /\ trace'[t][Len(trace'[t])] = Ev("_refresh_connection", out, NoDevice, <<>>)

\* C22: a successful refresh is a Connected -> Connected self-loop. When
\* _refresh_connection() returns True, by reconnect or by the fallback
\* connect(), from a session where is_connected() held, is_connected()
\* holds afterwards and a device handle is stored; after a successful
\* reconnect the session is the very same.
C22_RefreshSelfLoop ==
    [][\A t \in Threads :
         (RefreshReturnsNow(t, "True") /\ IsConnected) =>
            /\ is_connected(_is_connected', device')
            /\ _is_connected' /\ device' # NoDevice
            /\ pc[t] = "refresh_reconnect" =>
                  (_is_connected' = _is_connected /\ device' = device)]_vars

\* C22 witness: a refresh that succeeded through the fallback connect() has
\* just returned, the operation is about to retry and the client is
\* connected.
C22_Witness ==
    \E t \in Threads :
        /\ op[t] \in DomainOps /\ pc[t] = "remote_call" /\ retry_count[t] = 1
        /\ pre[t].connected
        /\ \E i \in 1..Len(trace[t]) :
              trace[t][i].ev = "jd.get_device" /\ trace[t][i].out = "ok"
        /\ RefreshReturns(t) = <<Ev("_refresh_connection", "True", NoDevice, <<>>)>>
        /\ IsConnected

\* ------------------------------------------------------------ progress
\* the steps a thread takes inside an operation: each is one call to the
\* external collaborator (or the code right after it)
Step(t) ==
    \/ jd_connect(t)
    \/ jd_get_device(t)
    \/ jd_disconnect(t)
    \/ add_validate(t)
    \/ remote_call(t)
    \/ remote_answer(t)
    \/ jd_reconnect(t)
    \/ add_download_respond(t)
    \/ get_downloads_respond(t)

\* every call to the external collaborator returns or raises, so a thread
\* inside an operation takes its next step
SpecLive == Init /\ [][Next]_vars /\ \A t \in Threads : WF_vars(Step(t))

\* the counts of one invocation stay within calls device calls, one
\* reconnect and connects authentications
WithinBounds(t, calls, connects) ==
    /\ Len(Calls(t)) <= calls
    /\ Count(t, IsReconnect) <= 1
    /\ Count(t, IsConnectCall) <= connects

DeclaredOutcome(t) ==
    Finished(t) =>
        result[t].kind \in {"return", "MyJDConnectionError", "MyJDOperationError"}

\* C23 (as claimed): every domain operation invocation terminates, with a
\* result, MyJDConnectionError or MyJDOperationError, after at most 2 device
\* calls, 1 reconnect and 1 connect.
C23_Termination ==
    /\ [](\A t \in Threads :
            op[t] \in DomainOps => WithinBounds(t, 2, 1) /\ DeclaredOutcome(t))
    /\ \A t \in Threads : (pc[t] # "idle") ~> (pc[t] = "idle")

\* C23 (amended): every domain operation invocation terminates, with a
\* result, MyJDConnectionError or MyJDOperationError, after at most 2 device
\* calls, 1 reconnect and 1 connect made by the refresh; add_download_package
\* makes one more connect, before its first attempt, when it is called
\* while not connected.
C23_TerminationLazy ==
    /\ [](\A t \in Threads :
            op[t] \in DomainOps =>
               /\ WithinBounds(t, 2, IF op[t] = "add_download_package"
                                        /\ ~pre[t].connected THEN 2 ELSE 1)
               /\ \A i \in 1..Len(trace[t]) :
                     trace[t][i].ev = "jd.reconnect" =>
                        Len(SelectSeq(SubSeq(trace[t], i, Len(trace[t])),
                                      IsConnectCall)) <= 1
               /\ DeclaredOutcome(t))
    /\ \A t \in Threads : (pc[t] # "idle") ~> (pc[t] = "idle")

\* C23 witness: an add_download_package called while not connected that
\* finished after its lazy connect, 2 submissions, 1 reconnect and the
\* fallback connect.
C23_Witness ==
    \E t \in Threads :
        /\ Finished(t) /\ op[t] = "add_download_package" /\ ~pre[t].connected
        /\ Len(Calls(t)) = 2
        /\ Count(t, IsReconnect) = 1
        /\ Count(t, IsConnectCall) = 2

\* no device call of thread t's invocation raised token-invalid
NoTokenInvalid(t) ==
    \A i \in 1..Len(trace[t]) : trace[t][i].out # "token_invalid"

\* C24: a query or control operation whose device call did not raise
\* token-invalid, whether it succeeded, failed otherwise or was never made,
\* leaves _is_connected and device as they were when it was called.
C24_QueryFrame ==
    \A t \in Threads :
        (op[t] \in GuardedOps /\ NoTokenInvalid(t)) =>
            /\ _is_connected = pre[t].flag
            /\ device = pre[t].device
            /\ \A i \in 1..Len(trace[t]) : trace[t][i].ev = RemoteOf(op[t])

\* C24 witness: a get_download_packages whose query failed with a
\* non-token error, the client still connected afterwards.
C24_Witness ==
    \E t \in Threads :
        /\ Finished(t) /\ op[t] = "get_download_packages"
        /\ Len(Calls(t)) = 1 /\ Calls(t)[1].out = "error"
        /\ result[t].kind = "MyJDOperationError"
        /\ IsConnected

\* the status a raw record stands for, whatever the case of its letters
StatusOf(pkg) ==
    IF "status" \notin DOMAIN pkg THEN "unknown"
    ELSE CASE pkg.status \in {"downloading", "DOWNLOADING"} -> "downloading"
           [] pkg.status \in {"finished", "Finished"} -> "finished"
           [] pkg.status \in {"failed", "paused", "pending", "extracting"} -> pkg.status
           [] OTHER -> "unknown"

\* C25: get_download_packages queries the remote service on every call made
\* while connected, and what it returns is built from the answer of the last
\* query of that very call: one package per raw record, in the same order
\* (same uuid at each position), its status the record's status up to case
\* and "unknown" for any other or missing status.
C25_FreshSnapshot ==
    \A t \in Threads :
        (Finished(t) /\ op[t] = "get_download_packages") =>
            /\ pre[t].connected =>
                  /\ Len(Calls(t)) >= 1
                  /\ \A i \in 1..Len(Calls(t)) :
                        Calls(t)[i].ev = "downloads.query_packages"
            /\ result[t].kind = "return" =>
                  LET last == trace[t][Len(trace[t])]
                      raw == last.data.val
                  IN /\ last.ev = "downloads.query_packages" /\ last.out = "ok"
                     /\ Len(result[t].val) = Len(raw)
                     /\ \A i \in 1..Len(raw) :
                           /\ result[t].val[i].package_id = Get(raw[i], "uuid", "")
                           /\ result[t].val[i].status = StatusOf(raw[i])
                           /\ result[t].val[i].status \in StatusValues \cup {"unknown"}

\* C25 witness: a query answered with two records, the first with status
\* "Finished" and the second without a status, returned as a finished and
\* an unknown package in that order.
C25_Witness ==
    \E t \in Threads :
        /\ Finished(t) /\ op[t] = "get_download_packages"
        /\ result[t].kind = "return" /\ Len(result[t].val) = 2
        /\ result[t].val[1].package_id = "u2" /\ result[t].val[1].status = "finished"
        /\ result[t].val[2].package_id = "u4" /\ result[t].val[2].status = "unknown"

\* the packages of a 200 answer of GET /downloads
Answered(t) ==
    IF op[t] = "route_get_downloads" /\ result[t].val.status = 200
    THEN result[t].val.packages ELSE <<>>

\* C26: the derived fields of every package GET /downloads answers with.
\* progress_percentage is bytes_loaded * 100 / bytes_total when bytes_total
\* is not 0 and 0 when it is, never a division by zero, and 25 for 250 of
\* 1000; is_completed holds exactly for status finished, is_downloading
\* exactly for status downloading, and never both.
C26_DerivedFields ==
    \A t \in Threads :
        \A i \in 1..Len(Answered(t)) :
            LET d == Answered(t)[i]
                pct == d.progress_percentage
            IN /\ pct.den # 0
               /\ IF d.bytes_total = 0
                  THEN pct.num = 0
                  ELSE pct.num * d.bytes_total = d.bytes_loaded * 100 * pct.den
               /\ (d.bytes_loaded = 250 /\ d.bytes_total = 1000) =>
                     pct.num = 25 * pct.den
               /\ d.is_completed = (d.status = "finished")
               /\ d.is_downloading = (d.status = "downloading")
               /\ ~(d.is_completed /\ d.is_downloading)

\* C26 witness: an answer holding the package of 250 of 1000 bytes, which
\* is downloading, and the finished package of 0 bytes.
C26_Witness ==
    \E t \in Threads :
        /\ Len(Answered(t)) = 2
        /\ Answered(t)[1].bytes_total = 1000 /\ Answered(t)[1].is_downloading
        /\ Answered(t)[2].bytes_total = 0 /\ Answered(t)[2].is_completed
        /\ Answered(t)[2].progress_percentage.num = 0

\* C27: add_download_package returned success = True only if a submission
\* of that invocation succeeded: the last collaborator call it made is a
\* linkgrabber.add_links that answered, and it is the first submission or
\* the one retry after a first that raised token-invalid.
C27_SuccessMeansSubmitted ==
    \A t \in Threads :
        (Finished(t) /\ op[t] = "add_download_package"
           /\ result[t].kind = "return" /\ result[t].val.success = TRUE) =>
            /\ Len(Submits(t)) \in {1, 2}
            /\ Submits(t)[Len(Submits(t))].out = "ok"
            /\ trace[t][Len(trace[t])] = Submits(t)[Len(Submits(t))]
            /\ Submits(t)[Len(Submits(t))].data.arg = Package(args[t])
            /\ Len(Submits(t)) = 2 => Submits(t)[1].out = "token_invalid"

\* C27 witness: success = True returned after the retry succeeded.
C27_Witness ==
    \E t \in Threads :
        /\ Finished(t) /\ op[t] = "add_download_package"
        /\ result[t].kind = "return" /\ result[t].val.success = TRUE
        /\ Len(Submits(t)) = 2 /\ Submits(t)[2].out = "ok"

\* C28: POST /downloads answers 201 "Successfully added download package"
\* only when add_download_package reported success = True; a soft failure
\* of the client is never answered as an added package.
C28_CreatedMeansAdded ==
    \A t \in Threads :
        (op[t] = "route_add_download" /\ result[t].val.status = 201) =>
            /\ result[t].val.message = "Successfully added download package"
            /\ result[t].val.success.success = TRUE
            /\ Len(Submits(t)) >= 1

\* C29: whenever _is_connected is set, a device handle is stored.
C29_FlagImpliesDevice == _is_connected => device # NoDevice

\* thread u's disconnect() has returned and cleared the flag while the
\* domain operation of thread t, which was entered connected, is still
\* running
DisconnectedInFlight(t, u) ==
    /\ t # u
    /\ Finished(u) /\ op[u] = "disconnect"
    /\ ~_is_connected
    /\ op[t] \in DomainOps /\ pc[t] # "idle" /\ pre[t].connected

\* C30: once another thread's disconnect() has returned, an operation
\* that was already running issues no further collaborator call: no device
\* call, no jd.reconnect, no jd.connect or jd.get_device.
C30_NoCallsAfterDisconnect ==
    [][\A t, u \in Threads :
         DisconnectedInFlight(t, u) => Len(trace'[t]) <= Len(trace[t])]_vars

\* C31: add_download_package checks connectivity before its arguments.
\* Called while not connected it calls connect() first, whatever the links
\* and the category; when that connect fails the result carries the
\* connection error, not a validation message, and nothing else is called;
\* and once connectivity is settled, empty links with a disallowed category
\* give "No download links provided".
C31_ConnectBeforeValidate ==
    \A t \in Threads :
        op[t] = "add_download_package" =>
            /\ ~pre[t].connected =>
                  /\ pc[t] # "add_validate" \/ Len(trace[t]) >= 1
                  /\ Len(trace[t]) >= 1 => trace[t][1].ev = "jd.connect"
                  /\ Finished(t) => Len(trace[t]) >= 1
            /\ (Finished(t) /\ LazyConnectFailed(t)) =>
                  /\ SoftFailure(t, "Connection error")
                  /\ Len(Calls(t)) = 0
                  /\ \A i \in 1..Len(trace[t]) : IsAuth(trace[t][i])
            /\ (Finished(t) /\ PreambleOk(t)
                  /\ Len(args[t].links) = 0 /\ BadCategory(args[t])) =>
                  SoftFailure(t, "No download links provided")

\* C31 witness: called while not connected with no links and category
\* "horror", the connect failed and the message is the connection error.
C31_Witness ==
    \E t \in Threads :
        /\ Finished(t) /\ op[t] = "add_download_package" /\ ~pre[t].connected
        /\ Len(args[t].links) = 0 /\ args[t].category = "horror"
        /\ LazyConnectFailed(t)
        /\ SoftFailure(t, "Connection error")

IsLookup(e) == e.ev = "jd.get_device"

\* the refresh of thread t's invocation went through the fallback connect()
\* and returned True
RefreshedByConnect(t) ==
    /\ \E i \in 1..Len(trace[t]) :
          trace[t][i].ev = "jd.reconnect" /\ trace[t][i].out = "raise"
    /\ RefreshReturns(t) = <<Ev("_refresh_connection", "True", NoDevice, <<>>)>>

\* C32: the retry of a device call is made on the handle stored when it is
\* made. After a refresh through the fallback connect() that is the handle
\* the last jd.get_device of the invocation returned, whatever handle the
\* first attempt used; after a successful reconnect it is the handle of the
\* first attempt, which is still the stored one.
C32_RetryUsesCurrentDevice ==
    \A t \in Threads :
        (op[t] \in DomainOps /\ Len(Calls(t)) = 2) =>
            LET lookups == SelectSeq(trace[t], IsLookup)
            IN /\ RefreshedByConnect(t) =>
                     /\ lookups[Len(lookups)].out = "ok"
                     /\ Calls(t)[2].dev = lookups[Len(lookups)].dev
               /\ ~RefreshedByConnect(t) => Calls(t)[2].dev = Calls(t)[1].dev
               /\ pc[t] = "idle" => Calls(t)[2].dev = device

\* C32 witness: the first attempt went to one handle, the fallback connect
\* resolved another, and the retry went to the new one.
C32_Witness ==
    \E t \in Threads :
        /\ op[t] \in DomainOps /\ Len(Calls(t)) = 2
        /\ RefreshedByConnect(t)
        /\ Calls(t)[1].dev = 1 /\ Calls(t)[2].dev = 2
        /\ Calls(t)[2].out = "ok"
====
